---- MODULE Spec2Model ----
(***************************************************************************)
(* Model of airflow/security/kerberos.py: the Kerberos ticket renewer.     *)
(*                                                                         *)
(* One Python process is modelled.  Control is either in the caller of     *)
(* this module (pc = "caller"), inside run() / renew_from_kt(), or gone    *)
(* because sys.exit() terminated the process (pc = "exited").  The two     *)
(* public entry points are run(principal, keytab, mode) and                *)
(* renew_from_kt(principal, keytab, exit_on_fail).  The kinit child        *)
(* processes and the ticket cache file are the environment: their exit     *)
(* statuses and the result of reading the cache are chosen                 *)
(* nondeterministically.                                                   *)
(*                                                                         *)
(* Exit statuses are the statuses a child reports through exit(), so they  *)
(* are naturals; 0 is success.  sys.exit() is taken as the end of the      *)
(* process: nothing in this module catches SystemExit.  An exception       *)
(* raised by detect_conf_var() leaves renew_from_kt() and run(), neither   *)
(* of which has a handler, and control is back in the caller, which may    *)
(* call again.                                                             *)
(***************************************************************************)
EXTENDS Naturals, FiniteSets, Sequences, TLC

\* ---------------------------------------------------------------- bounds
\* Largest exit status a kinit child reports in the model (statuses 0..MaxStatus).
MaxStatus == 2

\* Value at which the history counters saturate (they stay there; no guard
\* stops the loop of run(), which is unbounded in the code).
MaxCount == 3

\* Values of the [kerberos] reinit_frequency option (seconds) the model draws from.
ReinitFrequencies == {1, 2, 3600}

ExitStatuses == 0 .. MaxStatus

\* Strings that the code takes apart (principals, host names) are sequences
\* of one-character strings; Join turns such a sequence into a string.
RECURSIVE Join(_)
Join(cs) == IF cs = << >> THEN "" ELSE Head(cs) \o Join(Tail(cs))

\* get_kerberos_principal line 65: the placeholder "_HOST".
HOST_TOKEN == << "_", "H", "O", "S", "T" >>

\* Values of the [kerberos] principal option: "a/_HOST@R", "_HOST/_HOST" and a
\* value without the placeholder, "a_HO@R".
ConfPrincipals ==
    { << "a", "/", "_", "H", "O", "S", "T", "@", "R" >>,
      << "_", "H", "O", "S", "T", "/", "_", "H", "O", "S", "T" >>,
      << "a", "_", "H", "O", "@", "R" >> }

\* Principal arguments of run() and renew_from_kt(): the empty sequence is the
\* falsy value (None or ""), the other is the explicit principal "u/_HOST".
Principals == { << >>, << "u", "/", "_", "H", "O", "S", "T" >> }

\* What get_hostname() returns on the machine: "h1".
Hostnames == { << "h", "1" >> }

\* The [kerberos] kinit_path and ccache options.
KinitPath == "kinit"
Ccache == "/tmp/airflow_krb5_ccache"

\* ------------------------------------------------------------ vocabulary
\* KerberosMode members.
STANDARD == "standard"
ONE_TIME == "one-time"
KerberosMode == {STANDARD, ONE_TIME}

\* Keytab arguments run() and renew_from_kt() are called with: the empty
\* string is the falsy "no keytab configured" value.
Keytabs == {"", "airflow.keytab"}

\* Values of the module global NEED_KRB181_WORKAROUND (bool | None).
NeedValues == {"None", "True", "False"}

\* What detect_conf_var() can do: return True / False, or fail to open/read
\* the ticket cache (open() raises an OSError).
DetectResults == {"True", "False", "IOError"}

VARIABLES
    pc,                     \* position of the process
    entry,                  \* entry point of the current / last call: "none", "run", "renew_from_kt"
    mode,                   \* run(): the mode argument
    keytab,                 \* the keytab argument of the current / last call
    exit_on_fail,           \* renew_from_kt(): the exit_on_fail argument
    reinit_frequency,       \* conf.getint("kerberos", "reinit_frequency")
    forwardable,            \* conf.getboolean("kerberos", "forwardable")
    include_ip,             \* conf.getboolean("kerberos", "include_ip")
    conf_principal,         \* conf.get_mandatory_value("kerberos", "principal")
    hostname,               \* get_hostname()
    principal,              \* the principal argument of the current / last call
    cmd_principal,          \* renew_from_kt line 80: the effective principal of the current / last call
    cmdv,                   \* renew_from_kt lines 91-103: argv of the primary kinit of the current / last call
    workaround_principal,   \* argument perform_krb181_workaround was called with in that call (NoValue if not called)
    ops,                    \* history: the external operations of the current / last renew_from_kt call, in order
    NEED_KRB181_WORKAROUND, \* the module global
    returncode,             \* subp.returncode of the primary kinit of the current call (NoValue before it exits)
    ret,                    \* renew_from_kt line 134: what perform_krb181_workaround returned (NoValue before)
    result,                 \* value renew_from_kt returned or gave to sys.exit (NoValue if neither)
    outcome,                \* how the current / last renew_from_kt call ended: "none" (running or never called), "returned", "exited", "raised"
    exitStatus,             \* exit status of the process once pc = "exited" (NoValue before)
    children,               \* number of kinit child processes started and not yet terminated
    needAtCall,             \* history: NEED_KRB181_WORKAROUND when the current / last renew_from_kt call started
    detected,               \* history: what detect_conf_var did in the current / last call ("none" if not invoked)
    callPrimary,            \* history: primary kinit invocations in the current / last renew_from_kt call
    callDetect,             \* history: detect_conf_var invocations in that call
    callKrbSleep,           \* history: time.sleep(1.5) executions in that call
    callWorkaround,         \* history: perform_krb181_workaround invocations in that call
    runPrimary,             \* history: renew_from_kt invocations made by the current / last run() call
    runWorkaround,          \* history: perform_krb181_workaround invocations during the current / last run() call
    runSleeps,              \* history: interval sleeps made by the current / last run() call
    needAtRun,              \* history: NEED_KRB181_WORKAROUND when the current / last run() call started
    sleepsSince,            \* history: interval sleeps since the last primary kinit invocation
    sleepsBefore,           \* history: value of sleepsSince when the last primary kinit was invoked
    lastSleep,              \* history: duration (seconds) of the last interval sleep (NoValue if none)
    totWorkaround,          \* history: perform_krb181_workaround invocations in the process lifetime
    totPrimaryOK,           \* history: primary kinit invocations that exited 0, in the process lifetime
    totDetectDone,          \* history: detect_conf_var calls that returned a value, in the process lifetime
    totDetectFailed         \* history: detect_conf_var calls that raised, in the process lifetime

vars == << pc, entry, mode, keytab, exit_on_fail, reinit_frequency,
           forwardable, include_ip, conf_principal, hostname, principal,
           cmd_principal, cmdv, workaround_principal, ops,
           NEED_KRB181_WORKAROUND, returncode, ret, result, outcome, exitStatus, children,
           needAtCall, detected, callPrimary, callDetect, callKrbSleep, callWorkaround,
           runPrimary, runWorkaround, runSleeps, needAtRun,
           sleepsSince, sleepsBefore, lastSleep,
           totWorkaround, totPrimaryOK, totDetectDone, totDetectFailed >>

argVars  == << mode, keytab, exit_on_fail, principal >>
confVars == << forwardable, include_ip, conf_principal, hostname >>
cmdVars  == << cmd_principal, cmdv >>
callHist == << needAtCall, detected, callPrimary, callDetect, callKrbSleep, callWorkaround >>
runHist  == << runPrimary, runWorkaround, runSleeps, needAtRun >>
gapHist  == << sleepsSince, sleepsBefore, lastSleep >>
totHist  == << totWorkaround, totPrimaryOK, totDetectDone, totDetectFailed >>

\* Optional values (a status or a duration that may not exist yet): the empty
\* tuple is "no value", a one-element tuple holds the value.
NoValue == << >>
Some(v) == << v >>

\* Saturating increment of a history counter.
Inc(n) == IF n < MaxCount THEN n + 1 ELSE n

\* ------------------------------------------------------- pure functions
\* p is a prefix of s.
IsPrefix(p, s) == Len(p) <= Len(s) /\ SubSeq(s, 1, Len(p)) = p

\* Variant of Replace that replaces the first occurrence only.
RECURSIVE Replace_FirstOnly(_, _, _)
Replace_FirstOnly(s, old, new) ==
    IF s = << >> THEN << >>
    ELSE IF IsPrefix(old, s) THEN new \o SubSeq(s, Len(old) + 1, Len(s))
    ELSE << Head(s) >> \o Replace_FirstOnly(Tail(s), old, new)

\* str.replace(old, new) for a non-empty old: every non-overlapping occurrence,
\* found from the left, is replaced.
RECURSIVE Replace(_, _, _)
Replace(s, old, new) ==
    IF s = << >> THEN << >>
    ELSE IF IsPrefix(old, s) THEN new \o Replace(SubSeq(s, Len(old) + 1, Len(s)), old, new)
    ELSE << Head(s) >> \o Replace(Tail(s), old, new)

\* Variant of get_kerberos_principal that substitutes the host in an explicit
\* principal too.
GetKerberosPrincipal_ReplaceAlways(p, template, host) ==
    Replace(IF p # << >> THEN p ELSE template, HOST_TOKEN, host)

\* get_kerberos_principal, lines 63-65.
GetKerberosPrincipal(p, template, host) ==
    IF p # << >> THEN p ELSE Replace(template, HOST_TOKEN, host)

\* The decimal digit d as a string.
DigitStr(d) == << "0", "1", "2", "3", "4", "5", "6", "7", "8", "9" >>[d + 1]

\* The decimal representation of the natural number n, as format() gives it.
RECURSIVE IntToStr(_)
IntToStr(n) == IF n < 10 THEN DigitStr(n) ELSE IntToStr(n \div 10) \o DigitStr(n % 10)

\* renew_from_kt, line 78: the renewal lifetime argument.
RenewalLifetime(n) == IntToStr(n) \o "m"

\* Variant of ForwardableFlag with the two flags exchanged.
ForwardableFlag_Swapped(b) == IF b THEN "-F" ELSE "-f"

\* renew_from_kt, lines 81-84.
ForwardableFlag(b) == IF b THEN "-f" ELSE "-F"

\* renew_from_kt, lines 86-89.
IncludeIpFlag(b) == IF b THEN "-a" ELSE "-A"

\* renew_from_kt, lines 91-103: the argv of the primary kinit.
Cmdv(fwd, ip, n, kt, princ) ==
    << KinitPath, ForwardableFlag(fwd), IncludeIpFlag(ip), "-r", RenewalLifetime(n),
       "-k", "-t", kt, "-c", Ccache, Join(princ) >>

\* Variant of BeforeWorkaround without the delay.
BeforeWorkaround_NoSleep == "krb_call"

\* renew_from_kt, lines 130-134: the workaround branch starts with the sleep
\* of line 133.
BeforeWorkaround == "krb_sleep"

\* ------------------------------------------------- decisions of the code
\* Variant of PrimaryFailed that treats only status 1 as a failure.
PrimaryFailed_OnlyOne(rc) == rc = 1

\* Variant of PrimaryFailed that never sees a failure.
PrimaryFailed_Never(rc) == FALSE

\* renew_from_kt, line 115: the primary kinit failed.
PrimaryFailed(rc) == rc # 0

\* Variant of PrimaryFailureOutcome with the two branches exchanged.
PrimaryFailureOutcome_Swapped(eof) == IF eof THEN "returned" ELSE "exited"

\* Variant of PrimaryFailureOutcome that never ends the process.
PrimaryFailureOutcome_NeverExit(eof) == "returned"

\* renew_from_kt, lines 122-125: how the call ends when the primary kinit failed.
PrimaryFailureOutcome(eof) == IF eof THEN "exited" ELSE "returned"

\* Variant of DetectNeeded that detects in every successful cycle.
DetectNeeded_Always(need) == TRUE

\* renew_from_kt, line 128: the global is still unset, detection is needed.
DetectNeeded(need) == need = "None"

\* renew_from_kt, line 129: the value stored in the global after detect_conf_var
\* returned d ("True" / "False").
StoreDetected(need, d) == d

\* Variant of NeedAfterFailure that records a failed detection as "not needed".
NeedAfterFailure_Cached(need) == "False"

\* renew_from_kt, line 129: the global when detect_conf_var raised instead: the
\* exception leaves the statement before the assignment, the global is untouched.
NeedAfterFailure(need) == need

\* Variant of WorkaroundNeeded that never takes the workaround branch.
WorkaroundNeeded_Never(need) == FALSE

\* Variant of WorkaroundNeeded that takes the workaround branch whatever was detected.
WorkaroundNeeded_Always(need) == TRUE

\* Variant of WorkaroundNeeded with the test inverted.
WorkaroundNeeded_Inverted(need) == need = "False"

\* renew_from_kt, line 130: the workaround branch is taken.
WorkaroundNeeded(need) == need = "True"

\* Variant of WorkaroundOutcome that returns the status whatever exit_on_fail is.
WorkaroundOutcome_Ignore(eof, w) == "returned"

\* Variant of WorkaroundOutcome that exits only when exit_on_fail is False.
WorkaroundOutcome_Negated(eof, w) == IF ~eof /\ w # 0 THEN "exited" ELSE "returned"

\* renew_from_kt, lines 135-138: how the call ends after the workaround returned w.
WorkaroundOutcome(eof, w) == IF eof /\ w # 0 THEN "exited" ELSE "returned"

\* Variant of AfterRenew that returns after one cycle in every mode.
AfterRenew_NeverLoop(m) == "caller"

\* Variant of AfterRenew that keeps looping in every mode.
AfterRenew_AlwaysLoop(m) == "interval_sleep"

\* Variant of AfterRenew whose loop goes straight to the next renewal.
AfterRenew_NoSleep(m) == IF m = STANDARD THEN "idle" ELSE "caller"

\* run, lines 207-212: where run() continues after renew_from_kt returned.
AfterRenew(m) == IF m = STANDARD THEN "interval_sleep" ELSE "caller"

\* Variant of AfterWait in which the wait returns while the child still runs.
AfterWait_NoWait(n) == n

\* renew_from_kt line 114 (subp.wait()) and perform_krb181_workaround line 158
\* (subprocess.call): the wait returns when the child has terminated, so one
\* child fewer is outstanding.
AfterWait(n) == n - 1

\* Variant of NoKeytab that never takes the early exit.
NoKeytab_Never(kt) == FALSE

\* run, line 201: the keytab argument is falsy.
NoKeytab(kt) == kt = ""

\* --------------------------------------------------------------- Init
Init ==
    /\ pc = "caller"
    /\ entry = "none"
    /\ mode = STANDARD
    /\ keytab = ""
    /\ exit_on_fail = TRUE
    /\ reinit_frequency \in ReinitFrequencies
    /\ forwardable \in BOOLEAN
    /\ include_ip \in BOOLEAN
    /\ conf_principal \in ConfPrincipals
    /\ hostname \in Hostnames
    /\ principal = << >>
    /\ cmd_principal = << >>
    /\ cmdv = << >>
    /\ workaround_principal = NoValue
    /\ ops = << >>
    /\ NEED_KRB181_WORKAROUND = "None"
    /\ returncode = NoValue
    /\ ret = NoValue
    /\ result = NoValue
    /\ outcome = "none"
    /\ exitStatus = NoValue
    /\ children = 0
    /\ needAtCall = "None"
    /\ detected = "none"
    /\ callPrimary = 0
    /\ callDetect = 0
    /\ callKrbSleep = 0
    /\ callWorkaround = 0
    /\ runPrimary = 0
    /\ runWorkaround = 0
    /\ runSleeps = 0
    /\ needAtRun = "None"
    /\ sleepsSince = 0
    /\ sleepsBefore = 0
    /\ lastSleep = NoValue
    /\ totWorkaround = 0
    /\ totPrimaryOK = 0
    /\ totDetectDone = 0
    /\ totDetectFailed = 0

\* ------------------------------------------------------------- actions
\* The end of a renew_from_kt call: o is "returned" (value v), "exited"
\* (sys.exit(v)) or "raised" (v unused: an exception leaves renew_from_kt and, when
\* run() called it, run() as well, since neither has a handler).
Finish(o, v) ==
    /\ outcome' = o
    /\ result' = IF o = "raised" THEN NoValue ELSE Some(v)
    /\ pc' = IF o = "exited" THEN "exited"
             ELSE IF o = "raised" THEN "caller"
             ELSE IF entry = "run" THEN AfterRenew(mode)
             ELSE "caller"
    /\ exitStatus' = IF o = "exited" THEN Some(v) ELSE exitStatus

\* run(principal, keytab, mode), lines 201-205: the caller enters run().
\* Without a keytab the process exits with status 0; otherwise control is at
\* the top of the mode branch (the scheduler's Idle state).
Run ==
    /\ pc = "caller"
    /\ \E p \in Principals, kt \in Keytabs, m \in KerberosMode :
        /\ entry' = "run"
        /\ keytab' = kt
        /\ mode' = m
        /\ principal' = p
        /\ IF NoKeytab(kt)
             THEN /\ pc' = "exited"
                  /\ exitStatus' = Some(0)
             ELSE /\ pc' = "idle"
                  /\ UNCHANGED exitStatus
    /\ runPrimary' = 0
    /\ runWorkaround' = 0
    /\ runSleeps' = 0
    /\ needAtRun' = NEED_KRB181_WORKAROUND
    /\ UNCHANGED << exit_on_fail, reinit_frequency, confVars, cmdVars, workaround_principal,
                    ops, NEED_KRB181_WORKAROUND, returncode, ret,
                    result, outcome, children, callHist, gapHist, totHist >>

\* renew_from_kt lines 78-113, entered from the caller (any exit_on_fail) or
\* from run() (lines 209 / 212, exit_on_fail defaulting to True): the command
\* line is built and the primary kinit child is started; the process then
\* blocks in subp.wait().
StartRenew ==
    /\ runPrimary' = IF entry' = "run" THEN Inc(runPrimary) ELSE runPrimary
    /\ UNCHANGED << runWorkaround, runSleeps, needAtRun >>
    /\ pc' = "kinit_wait"
    /\ children' = children + 1
    /\ returncode' = NoValue
    /\ ret' = NoValue
    /\ result' = NoValue
    /\ outcome' = "none"
    /\ needAtCall' = NEED_KRB181_WORKAROUND
    /\ detected' = "none"
    /\ callPrimary' = 1
    /\ callDetect' = 0
    /\ callKrbSleep' = 0
    /\ callWorkaround' = 0
    /\ sleepsBefore' = sleepsSince
    /\ sleepsSince' = 0
    /\ cmd_principal' = GetKerberosPrincipal(principal', conf_principal, hostname)
    /\ cmdv' = Cmdv(forwardable, include_ip, reinit_frequency, keytab', cmd_principal')
    /\ workaround_principal' = NoValue
    /\ ops' = << "Popen" >>
    /\ UNCHANGED << reinit_frequency, confVars, NEED_KRB181_WORKAROUND, exitStatus, lastSleep,
                    totHist >>

\* The caller calls renew_from_kt(principal, keytab, exit_on_fail) directly.
CallRenew ==
    /\ pc = "caller"
    /\ \E p \in Principals, eof \in BOOLEAN :
        /\ entry' = "renew_from_kt"
        /\ principal' = p
        /\ keytab' = "airflow.keytab"
        /\ exit_on_fail' = eof
    /\ UNCHANGED mode
    /\ StartRenew

\* run() lines 209 / 212: run() calls renew_from_kt(principal, keytab).
RunRenew ==
    /\ pc = "idle"
    /\ exit_on_fail' = TRUE
    /\ UNCHANGED << entry, mode, keytab, principal >>
    /\ StartRenew

\* renew_from_kt lines 114-125: the primary kinit terminates with status rc.
KinitExit ==
    /\ pc = "kinit_wait"
    /\ ops' = Append(ops, "wait")
    /\ UNCHANGED << cmdVars, workaround_principal >>
    /\ \E rc \in ExitStatuses :
        /\ returncode' = Some(rc)
        /\ IF PrimaryFailed(rc)
             THEN Finish(PrimaryFailureOutcome(exit_on_fail), rc)
             ELSE /\ pc' = IF DetectNeeded(NEED_KRB181_WORKAROUND) THEN "detect" ELSE "line130"
                  /\ UNCHANGED << result, outcome, exitStatus >>
        /\ totPrimaryOK' = IF rc = 0 THEN Inc(totPrimaryOK) ELSE totPrimaryOK
    /\ children' = AfterWait(children)
    /\ UNCHANGED << entry, argVars, reinit_frequency, confVars, NEED_KRB181_WORKAROUND, ret,
                    callHist, runHist, gapHist, totWorkaround, totDetectDone, totDetectFailed >>

\* renew_from_kt lines 128-129 and detect_conf_var lines 185-189: the ticket
\* cache is read; the result is stored in the global, or the read fails and
\* the exception propagates before the assignment.
DetectConfVar ==
    /\ pc = "detect"
    /\ ops' = Append(ops, "detect_conf_var")
    /\ UNCHANGED << cmdVars, workaround_principal >>
    /\ callDetect' = Inc(callDetect)
    /\ \E d \in DetectResults :
        /\ detected' = d
        /\ IF d = "IOError"
             THEN /\ Finish("raised", 0)
                  /\ NEED_KRB181_WORKAROUND' = NeedAfterFailure(NEED_KRB181_WORKAROUND)
                  /\ totDetectFailed' = Inc(totDetectFailed)
                  /\ UNCHANGED totDetectDone
             ELSE /\ NEED_KRB181_WORKAROUND' = StoreDetected(NEED_KRB181_WORKAROUND, d)
                  /\ totDetectDone' = Inc(totDetectDone)
                  /\ pc' = "line130"
                  /\ UNCHANGED << result, outcome, exitStatus, totDetectFailed >>
    /\ UNCHANGED << entry, argVars, reinit_frequency, confVars, returncode, ret, children,
                    needAtCall, callPrimary, callKrbSleep, callWorkaround,
                    runHist, gapHist, totWorkaround, totPrimaryOK >>

\* renew_from_kt lines 130 and 139: the branch on the global; without the
\* workaround the call returns 0.
Line130 ==
    /\ pc = "line130"
    /\ UNCHANGED << cmdVars, workaround_principal, ops >>
    /\ IF WorkaroundNeeded(NEED_KRB181_WORKAROUND)
         THEN /\ pc' = BeforeWorkaround
              /\ UNCHANGED << result, outcome, exitStatus >>
         ELSE Finish("returned", 0)
    /\ UNCHANGED << entry, argVars, reinit_frequency, confVars, NEED_KRB181_WORKAROUND, returncode, ret,
                    children, callHist, runHist, gapHist, totHist >>

\* renew_from_kt line 133: time.sleep(1.5).
KrbSleep ==
    /\ pc = "krb_sleep"
    /\ ops' = Append(ops, "time.sleep(1.5)")
    /\ UNCHANGED << cmdVars, workaround_principal >>
    /\ pc' = "krb_call"
    /\ callKrbSleep' = Inc(callKrbSleep)
    /\ UNCHANGED << entry, argVars, reinit_frequency, confVars, NEED_KRB181_WORKAROUND, returncode, ret,
                    result, outcome, exitStatus, children, needAtCall, detected, callPrimary,
                    callDetect, callWorkaround, runHist, gapHist, totHist >>

\* renew_from_kt line 134, perform_krb181_workaround lines 149-158: the
\* renew-only kinit child is started and the process blocks in subprocess.call.
PerformWorkaround ==
    /\ pc = "krb_call"
    /\ workaround_principal' = Some(cmd_principal)
    /\ ops' = Append(ops, "perform_krb181_workaround")
    /\ UNCHANGED cmdVars
    /\ pc' = "krb_wait"
    /\ children' = children + 1
    /\ callWorkaround' = Inc(callWorkaround)
    /\ totWorkaround' = Inc(totWorkaround)
    /\ runWorkaround' = IF entry = "run" THEN Inc(runWorkaround) ELSE runWorkaround
    /\ UNCHANGED << entry, argVars, reinit_frequency, confVars, NEED_KRB181_WORKAROUND, returncode, ret,
                    result, outcome, exitStatus, needAtCall, detected, callPrimary, callDetect,
                    callKrbSleep, runPrimary, runSleeps, needAtRun, gapHist,
                    totPrimaryOK, totDetectDone, totDetectFailed >>

\* perform_krb181_workaround lines 158-173 and renew_from_kt lines 135-138:
\* the renew-only kinit terminates with status w, which is returned to
\* renew_from_kt and ends the call.
WorkaroundExit ==
    /\ pc = "krb_wait"
    /\ ops' = Append(ops, "workaround_return")
    /\ UNCHANGED << cmdVars, workaround_principal >>
    /\ \E w \in ExitStatuses :
        /\ ret' = Some(w)
        /\ Finish(WorkaroundOutcome(exit_on_fail, w), w)
    /\ children' = AfterWait(children)
    /\ UNCHANGED << entry, argVars, reinit_frequency, confVars, NEED_KRB181_WORKAROUND, returncode,
                    callHist, runHist, gapHist, totHist >>

\* run line 210: time.sleep(conf.getint("kerberos", "reinit_frequency")),
\* after which the while loop is at its top again.
IntervalSleep ==
    /\ pc = "interval_sleep"
    /\ UNCHANGED << cmdVars, workaround_principal, ops >>
    /\ pc' = "idle"
    /\ lastSleep' = Some(reinit_frequency)
    /\ sleepsSince' = Inc(sleepsSince)
    /\ runSleeps' = Inc(runSleeps)
    /\ UNCHANGED << entry, argVars, reinit_frequency, confVars, NEED_KRB181_WORKAROUND, returncode, ret,
                    result, outcome, exitStatus, children, callHist, runPrimary, runWorkaround,
                    needAtRun, sleepsBefore, totHist >>

\* The steps the process takes by itself once a call is in progress.
ProcessStep ==
    \/ RunRenew
    \/ KinitExit
    \/ DetectConfVar
    \/ Line130
    \/ KrbSleep
    \/ PerformWorkaround
    \/ WorkaroundExit
    \/ IntervalSleep

Next ==
    \/ Run
    \/ CallRenew
    \/ RunRenew
    \/ KinitExit
    \/ DetectConfVar
    \/ Line130
    \/ KrbSleep
    \/ PerformWorkaround
    \/ WorkaroundExit
    \/ IntervalSleep

Spec == Init /\ [][Next]_vars

\* The code is sequential and blocking: once inside a call, the next statement
\* runs, a sleep ends and a waited-for child terminates.  The caller is under
\* no obligation to call anything.
LiveSpec == Init /\ [][Next]_vars /\ WF_vars(ProcessStep)

TypeOK ==
    /\ pc \in {"caller", "idle", "kinit_wait", "detect", "line130", "krb_sleep",
               "krb_call", "krb_wait", "interval_sleep", "exited"}
    /\ entry \in {"none", "run", "renew_from_kt"}
    /\ mode \in KerberosMode
    /\ keytab \in Keytabs
    /\ exit_on_fail \in BOOLEAN
    /\ reinit_frequency \in ReinitFrequencies
    /\ NEED_KRB181_WORKAROUND \in NeedValues
    /\ returncode \in {NoValue} \cup {Some(s) : s \in ExitStatuses}
    /\ ret \in {NoValue} \cup {Some(s) : s \in ExitStatuses}
    /\ result \in {NoValue} \cup {Some(s) : s \in ExitStatuses}
    /\ outcome \in {"none", "returned", "exited", "raised"}
    /\ exitStatus \in {NoValue} \cup {Some(s) : s \in ExitStatuses}
    /\ children \in 0 .. 1
    /\ forwardable \in BOOLEAN
    /\ include_ip \in BOOLEAN
    /\ conf_principal \in ConfPrincipals
    /\ hostname \in Hostnames
    /\ principal \in Principals
    /\ Len(ops) <= 6

\* ---------------------------------------------------------------- claims
\* A renew_from_kt call has ended (returned, exited or raised) and no later
\* call has started.
CallOver == outcome # "none"

\* The primary kinit of the current / last call exited with a non-zero status.
PrimaryNonZero == returncode # NoValue /\ returncode # Some(0)

\* C1: for every non-zero exit status s of the primary kinit, a renew_from_kt
\* call with exit_on_fail = True terminates the process with exit status s, and
\* in that call neither detect_conf_var nor perform_krb181_workaround is invoked.
C1_ExitOnPrimaryFailure ==
    (exit_on_fail /\ PrimaryNonZero) =>
        /\ pc = "exited"
        /\ outcome = "exited"
        /\ exitStatus = returncode
        /\ callDetect = 0
        /\ callKrbSleep = 0
        /\ callWorkaround = 0
        /\ children = 0

C1_Witness ==
    /\ exit_on_fail
    /\ returncode = Some(MaxStatus)
    /\ pc = "exited"
    /\ exitStatus = Some(MaxStatus)
    /\ NEED_KRB181_WORKAROUND = "True"

\* C2: for every non-zero exit status s of the primary kinit, a renew_from_kt
\* call with exit_on_fail = False returns s, the process keeps running, and no
\* detection or workaround invocation happens in that call.
C2_ReturnOnPrimaryFailure ==
    (entry = "renew_from_kt" /\ ~exit_on_fail /\ PrimaryNonZero) =>
        /\ pc = "caller"
        /\ outcome = "returned"
        /\ result = returncode
        /\ exitStatus = NoValue
        /\ callDetect = 0
        /\ callKrbSleep = 0
        /\ callWorkaround = 0
        /\ children = 0

C2_Witness ==
    /\ entry = "renew_from_kt"
    /\ ~exit_on_fail
    /\ returncode = Some(2)
    /\ result = Some(2)
    /\ pc = "caller"
    /\ NEED_KRB181_WORKAROUND = "True"

\* C3: when run is called with no keytab, in either mode, the process exits
\* with status 0 before the run loop is entered: no primary kinit, no workaround
\* and no interval sleep happens in that run() call and NEED_KRB181_WORKAROUND
\* keeps the value it had when run() was called.
C3_NoKeytabExit ==
    (entry = "run" /\ keytab = "") =>
        /\ pc = "exited"
        /\ exitStatus = Some(0)
        /\ runPrimary = 0
        /\ runWorkaround = 0
        /\ runSleeps = 0
        /\ children = 0
        /\ NEED_KRB181_WORKAROUND = needAtRun

C3_Witness ==
    /\ entry = "run"
    /\ keytab = ""
    /\ mode = ONE_TIME
    /\ pc = "exited"
    /\ exitStatus = Some(0)
    /\ needAtRun = "True"
    /\ totWorkaround > 0

\* run() was called with a keytab in the given mode, and is the current / last
\* entry point.
InRun(m) == entry = "run" /\ keytab # "" /\ mode = m

\* Control has left the current / last run() call.
RunOver == pc \in {"caller", "exited"}

\* C4 as stated: in ONE_TIME mode with a keytab, run performs exactly one
\* renewal cycle (one renew_from_kt invocation, no interval sleep, no second
\* cycle) and then returns control to the caller, whatever the outcome of that
\* cycle.
C4_Original ==
    InRun(ONE_TIME) =>
        /\ runPrimary <= 1
        /\ runSleeps = 0
        /\ RunOver => (runPrimary = 1 /\ pc = "caller")

\* C4 amended: in ONE_TIME mode with a keytab, run performs exactly one renewal
\* cycle (one renew_from_kt invocation, no interval sleep, no second cycle); it
\* then returns to the caller if the cycle returned, lets a detection error
\* propagate to the caller, and otherwise (the primary kinit or the workaround
\* exited non-zero) the process has exited with that non-zero status.
C4_OneShot ==
    InRun(ONE_TIME) =>
        /\ runPrimary <= 1
        /\ runSleeps = 0
        /\ (pc = "idle") <=> (runPrimary = 0)
        /\ RunOver =>
            /\ runPrimary = 1
            /\ callPrimary = 1
            /\ CallOver
            /\ (pc = "caller") <=> (outcome \in {"returned", "raised"})
            /\ outcome = "returned" => result = Some(0)
            /\ (pc = "exited") <=>
                   \/ PrimaryNonZero
                   \/ (ret # NoValue /\ ret # Some(0))
            /\ pc = "exited" => (exitStatus = result /\ exitStatus # Some(0))

C4_Witness ==
    /\ InRun(ONE_TIME)
    /\ pc = "caller"
    /\ outcome = "returned"
    /\ runPrimary = 1
    /\ ret = Some(0)

\* run() is in its STANDARD loop.
InLoop == InRun(STANDARD) /\ ~RunOver

\* C5: in STANDARD mode run cycles Idle -> Renewing -> Sleeping -> Idle: from
\* every point of the loop a new primary kinit invocation eventually happens
\* unless a cycle fails (the process exits, or a detection error leaves run);
\* the loop is left only by such a failure; and every primary invocation after
\* the first of the run is preceded by exactly one interval sleep, of
\* reinit_frequency seconds.
C5_ContinuousLoop ==
    /\ [](InRun(STANDARD) /\ pc = "caller" => outcome = "raised")
    /\ [](InRun(STANDARD) /\ pc = "exited" => (exitStatus # Some(0) /\ outcome = "exited"))
    /\ [](InRun(STANDARD) /\ pc = "kinit_wait" /\ runPrimary >= 2 =>
              (sleepsBefore = 1 /\ lastSleep = Some(reinit_frequency)))
    /\ [](InRun(STANDARD) /\ pc = "kinit_wait" /\ runPrimary = 1 => sleepsBefore = 0)
    /\ (InLoop /\ pc = "kinit_wait") ~> (pc = "interval_sleep" \/ RunOver)
    /\ (InLoop /\ pc = "interval_sleep") ~> (pc = "idle")
    /\ (InLoop /\ pc # "kinit_wait") ~> (pc = "kinit_wait" \/ RunOver)

C5_Witness ==
    /\ InLoop
    /\ pc = "kinit_wait"
    /\ runPrimary = MaxCount
    /\ runSleeps = MaxCount
    /\ sleepsBefore = 1
    /\ runWorkaround >= 2

\* C6: NEED_KRB181_WORKAROUND is monotone: once it is True or False no step
\* of the process changes it again.
C6_NeedMonotone ==
    [][NEED_KRB181_WORKAROUND # "None" => NEED_KRB181_WORKAROUND' = NEED_KRB181_WORKAROUND]_vars

C6_Witness ==
    /\ needAtCall = "True"
    /\ NEED_KRB181_WORKAROUND = "True"
    /\ returncode = Some(1)
    /\ outcome = "returned"
    /\ totPrimaryOK >= 2

\* C7: in the cycle where detection ran with the global unset and returned
\* True the workaround is invoked exactly once; in every later cycle
\* detect_conf_var is not invoked again, and when the global is True each
\* cycle whose primary kinit exited 0 invokes the workaround exactly once.
C7_DetectOnceWorkaroundPerCycle ==
    /\ callDetect <= 1
    /\ callWorkaround <= 1
    /\ totDetectDone <= 1
    /\ detected # "none" => needAtCall = "None"
    /\ needAtCall # "None" => callDetect = 0
    /\ (detected = "True" /\ CallOver) => callWorkaround = 1
    /\ (needAtCall = "True" /\ returncode = Some(0) /\ CallOver) => callWorkaround = 1

C7_Witness ==
    /\ needAtCall = "True"
    /\ returncode = Some(0)
    /\ outcome = "returned"
    /\ callDetect = 0
    /\ callWorkaround = 1
    /\ totWorkaround >= 2
    /\ totDetectDone = 1

\* C8 as stated: over any sequence of renewal cycles in one process the total
\* number of workaround invocations is at most one.
C8_Original == totWorkaround <= 1

\* C8 amended: the workaround is invoked at most once per renewal cycle, only
\* in a cycle whose primary kinit exited 0 and only when the incompatibility
\* was detected, so over any sequence of cycles there are at most as many
\* workaround invocations as successful primary invocations.
C8_WorkaroundAtMostOncePerCycle ==
    /\ callWorkaround <= 1
    /\ totWorkaround <= totPrimaryOK
    /\ callWorkaround = 1 => (returncode = Some(0) /\ NEED_KRB181_WORKAROUND = "True")
    /\ NEED_KRB181_WORKAROUND # "True" => totWorkaround = 0

C8_Witness ==
    /\ totWorkaround = 2
    /\ totPrimaryOK = 2
    /\ callWorkaround = 1
    /\ CallOver

\* The workaround of the current / last call exited with a non-zero status.
WorkaroundNonZero == ret # NoValue /\ ret # Some(0)

\* C9: when the primary kinit succeeded, the global is True and the workaround
\* exits with non-zero status w: with exit_on_fail = True the process exits
\* with status w; with exit_on_fail = False renew_from_kt returns w and the
\* process keeps running.
C9_WorkaroundFailure ==
    /\ WorkaroundNonZero =>
           (returncode = Some(0) /\ NEED_KRB181_WORKAROUND = "True" /\ children = 0)
    /\ (WorkaroundNonZero /\ exit_on_fail) =>
           (pc = "exited" /\ outcome = "exited" /\ exitStatus = ret)
    /\ (WorkaroundNonZero /\ ~exit_on_fail /\ entry = "renew_from_kt") =>
           (pc = "caller" /\ outcome = "returned" /\ result = ret /\ exitStatus = NoValue)

C9_Witness ==
    /\ ret = Some(MaxStatus)
    /\ exit_on_fail
    /\ pc = "exited"
    /\ exitStatus = Some(MaxStatus)
    /\ needAtCall = "True"

\* C10: if detect_conf_var fails during a cycle whose primary kinit exited 0,
\* the error propagates out of renew_from_kt, NEED_KRB181_WORKAROUND stays
\* None, no workaround (and no 1.5 s delay) happens in that cycle, and the
\* next cycle whose primary kinit exits 0 invokes detect_conf_var again.
C10_DetectionFailureNotCached ==
    /\ detected = "IOError" =>
           /\ outcome = "raised"
           /\ result = NoValue
           /\ returncode = Some(0)
           /\ NEED_KRB181_WORKAROUND = "None"
           /\ callKrbSleep = 0
           /\ callWorkaround = 0
           /\ pc \in {"caller", "idle", "exited"}
           /\ pc = "exited" => (entry = "run" /\ keytab = "")
    /\ (totDetectFailed >= 1 /\ totDetectDone = 0) => NEED_KRB181_WORKAROUND = "None"
    /\ (totDetectFailed >= 1 /\ needAtCall = "None" /\ returncode = Some(0)) =>
           (pc = "detect" \/ callDetect = 1)

C10_Witness ==
    /\ totDetectFailed >= 1
    /\ needAtCall = "None"
    /\ callDetect = 1
    /\ detected = "True"
    /\ NEED_KRB181_WORKAROUND = "True"
    /\ callWorkaround = 1
\* C11: at most one kinit child is outstanding at any time: the workaround is
\* started only when the primary kinit of the same cycle has terminated, and
\* a cycle's primary kinit is started only when no child of an earlier cycle
\* is outstanding.
C11_OneChildAtATime ==
    /\ children <= 1
    /\ (children = 1) <=> (pc \in {"kinit_wait", "krb_wait"})
    /\ pc = "krb_call" => (children = 0 /\ returncode # NoValue)
    /\ pc \in {"caller", "idle", "interval_sleep", "exited"} => children = 0

C11_Witness ==
    /\ pc = "krb_wait"
    /\ children = 1
    /\ returncode = Some(0)
    /\ InLoop
    /\ runPrimary >= 2
\* A kinit child of the current / last renew_from_kt call exited non-zero.
CycleFailed == PrimaryNonZero \/ WorkaroundNonZero

\* The current / last renew_from_kt call was made by run() in mode m.
CycleOfRun(m) == InRun(m) /\ runPrimary >= 1

\* C12 as stated: every renew_from_kt call invokes the primary kinit exactly
\* once and the workaround at most once; a failed invocation is retried by the
\* scheduler's next periodic cycle in STANDARD mode (the loop goes on to its
\* interval sleep after the failed cycle); ONE_TIME mode never retries.
C12_Original ==
    /\ callPrimary <= 1
    /\ callWorkaround <= 1
    /\ CallOver => callPrimary = 1
    /\ InRun(ONE_TIME) => runPrimary <= 1
    /\ (CycleOfRun(STANDARD) /\ CycleFailed) => pc \in {"interval_sleep", "idle"}

\* C12 amended: every renew_from_kt call invokes the primary kinit exactly
\* once and the workaround at most once, whatever their exit statuses; run()
\* never retries a failed invocation, in STANDARD mode as in ONE_TIME mode: the
\* process has exited after it; only after a direct call with
\* exit_on_fail = False is control back in the caller, which may call again.
C12_NoRetry ==
    /\ callPrimary <= 1
    /\ callWorkaround <= 1
    /\ CallOver => callPrimary = 1
    /\ InRun(ONE_TIME) => runPrimary <= 1
    /\ \A m \in KerberosMode : (CycleOfRun(m) /\ CycleFailed) => pc = "exited"
    /\ (entry = "renew_from_kt" /\ CycleFailed /\ pc # "exited") =>
           (~exit_on_fail /\ pc = "caller")

C12_Witness ==
    /\ WorkaroundNonZero
    /\ ~exit_on_fail
    /\ pc = "caller"
    /\ callPrimary = 1
    /\ callWorkaround = 1
    /\ totWorkaround >= 2
\* The arguments recorded in the variables are those of the renew_from_kt call
\* whose command line is in cmdv (a later run() call has not replaced them).
ArgsOfCall == callPrimary = 1 /\ ~(entry = "run" /\ runPrimary = 0)

\* The renewal lifetime argument expected for each configured reinit_frequency.
ExpectedLifetime ==
    CASE reinit_frequency = 1 -> "1m"
      [] reinit_frequency = 2 -> "2m"
      [] reinit_frequency = 3600 -> "3600m"

\* C13: for each of the 4 combinations of forwardable and include_ip, the
\* arguments of the primary kinit after the executable path are exactly
\* [-f|-F, -a|-A, "-r", "<N>m", "-k", "-t", keytab, "-c", ccache, principal],
\* with -f iff forwardable, -a iff include_ip and N the reinit_frequency.
C13_ArgumentOrder ==
    ArgsOfCall =>
        /\ Len(cmdv) = 11
        /\ cmdv[1] = "kinit"
        /\ SubSeq(cmdv, 2, 11) =
               << (IF forwardable THEN "-f" ELSE "-F"),
                  (IF include_ip THEN "-a" ELSE "-A"),
                  "-r", ExpectedLifetime, "-k", "-t", keytab,
                  "-c", "/tmp/airflow_krb5_ccache", Join(cmd_principal) >>

C13_Witness ==
    /\ pc = "kinit_wait"
    /\ ~forwardable
    /\ include_ip
    /\ cmdv = << "kinit", "-F", "-a", "-r", "3600m", "-k", "-t", "airflow.keytab",
                 "-c", "/tmp/airflow_krb5_ccache", "a/h1@R" >>

\* The configured principal with every "_HOST" replaced by the host name,
\* written out for each value of the option.
ExpectedResolved ==
    CASE conf_principal = << "a", "/", "_", "H", "O", "S", "T", "@", "R" >>
             -> << "a", "/" >> \o hostname \o << "@", "R" >>
      [] conf_principal = << "_", "H", "O", "S", "T", "/", "_", "H", "O", "S", "T" >>
             -> hostname \o << "/" >> \o hostname
      [] conf_principal = << "a", "_", "H", "O", "@", "R" >>
             -> << "a", "_", "H", "O", "@", "R" >>

\* C14: get_kerberos_principal returns a non-empty explicit principal
\* unchanged whatever the configured value; without one it returns the
\* configured value with every "_HOST" replaced by the host name; that
\* effective principal is the last argument of the primary kinit and the
\* argument of perform_krb181_workaround.
C14_EffectivePrincipal ==
    ArgsOfCall =>
        /\ principal # << >> => cmd_principal = principal
        /\ principal = << >> => cmd_principal = ExpectedResolved
        /\ cmdv[Len(cmdv)] = Join(cmd_principal)
        /\ callWorkaround >= 1 => workaround_principal = Some(cmd_principal)
        /\ callWorkaround = 0 => workaround_principal = NoValue

C14_Witness ==
    /\ pc = "krb_wait"
    /\ principal = << >>
    /\ conf_principal = << "_", "H", "O", "S", "T", "/", "_", "H", "O", "S", "T" >>
    /\ cmd_principal = << "h", "1", "/", "h", "1" >>
    /\ cmdv[11] = "h1/h1"
    /\ workaround_principal = Some(<< "h", "1", "/", "h", "1" >>)
\* C15 as stated: in STANDARD mode run never returns normally to its caller;
\* the only way the loop ends from inside is a fatal renewal failure, in which
\* case the process exits with the non-zero exit status of the failing kinit
\* or workaround invocation.
C15_Original ==
    (InRun(STANDARD) /\ RunOver) =>
        /\ pc = "exited"
        /\ exitStatus # Some(0)
        /\ exitStatus \in {returncode, ret}

\* C15 amended: in STANDARD mode run never returns normally to its caller;
\* the loop ends from inside either by a fatal renewal failure, in which case
\* the process exits with the non-zero exit status of the failing kinit or
\* workaround invocation, or by an error of the cache detection, which leaves
\* run as an exception.
C15_NoNormalReturn ==
    (InRun(STANDARD) /\ RunOver) =>
        /\ runPrimary >= 1
        /\ outcome \in {"exited", "raised"}
        /\ (pc = "caller") <=> (outcome = "raised")
        /\ outcome = "raised" => (detected = "IOError" /\ exitStatus = NoValue)
        /\ pc = "exited" =>
               /\ exitStatus # Some(0)
               /\ exitStatus = result
               /\ \/ (PrimaryNonZero /\ exitStatus = returncode /\ ret = NoValue)
                  \/ (returncode = Some(0) /\ WorkaroundNonZero /\ exitStatus = ret)

C15_Witness ==
    /\ InRun(STANDARD)
    /\ pc = "exited"
    /\ runPrimary = MaxCount
    /\ returncode = Some(0)
    /\ ret = Some(1)
    /\ exitStatus = Some(1)

\* C16: within a cycle the detection (only when the global is None at that
\* point) and the workaround happen only after the primary kinit of the same
\* cycle exited 0, the detection precedes the workaround, and every workaround
\* invocation is immediately preceded by the time.sleep(1.5).
C16_CycleOrder ==
    /\ ops # << >> => ops[1] = "Popen"
    /\ \A i \in 1 .. Len(ops) :
        /\ ops[i] = "Popen" => i = 1
        /\ ops[i] = "wait" => i = 2
        /\ ops[i] = "detect_conf_var" =>
               (i = 3 /\ returncode = Some(0) /\ needAtCall = "None")
        /\ ops[i] = "time.sleep(1.5)" =>
               (i > 2 /\ ops[i - 1] \in {"wait", "detect_conf_var"} /\ returncode = Some(0))
        /\ ops[i] = "perform_krb181_workaround" =>
               (i > 3 /\ ops[i - 1] = "time.sleep(1.5)" /\ returncode = Some(0))
        /\ \A j \in 1 .. Len(ops) :
               (ops[i] = "detect_conf_var" /\ ops[j] = "perform_krb181_workaround") => i < j
    /\ (needAtCall # "None" /\ Len(ops) >= 3) => ops[3] = "time.sleep(1.5)"
    /\ callWorkaround >= 1 => callKrbSleep = callWorkaround

C16_Witness ==
    ops = << "Popen", "wait", "detect_conf_var", "time.sleep(1.5)",
             "perform_krb181_workaround", "workaround_return" >>

\* C17: NEED_KRB181_WORKAROUND has a single writer: a step changes it only in
\* a cycle whose primary kinit exited 0 while the global was None (the
\* detection of that cycle); a cycle whose primary kinit fails, the workaround
\* (success or failure), the interval sleep and the no-keytab exit leave it
\* unchanged.
C17_SingleWriter ==
    [][ /\ NEED_KRB181_WORKAROUND' # NEED_KRB181_WORKAROUND =>
              /\ NEED_KRB181_WORKAROUND = "None"
              /\ pc = "detect"
              /\ returncode = Some(0)
              /\ ops' = << "Popen", "wait", "detect_conf_var" >>
        /\ (pc \in {"caller", "idle", "krb_sleep", "krb_call", "krb_wait", "interval_sleep"}
              \/ (pc = "kinit_wait" /\ returncode' # Some(0))) =>
              NEED_KRB181_WORKAROUND' = NEED_KRB181_WORKAROUND ]_vars

C17_Witness ==
    /\ NEED_KRB181_WORKAROUND = "False"
    /\ needAtCall = "None"
    /\ detected = "False"
    /\ totDetectFailed >= 1
    /\ entry = "run"
    /\ keytab = ""
    /\ pc = "exited"

\* C18: renew_from_kt returns 0 exactly when the primary kinit exited 0 and
\* either the global resolved to False or the workaround exited 0; when the
\* global is False a successful cycle invokes no workaround and takes no
\* 1.5 s delay, for both values of exit_on_fail.
C18_SuccessExactly ==
    CallOver =>
        /\ (outcome = "returned" /\ result = Some(0)) <=>
               /\ returncode = Some(0)
               /\ \/ NEED_KRB181_WORKAROUND = "False"
                  \/ ret = Some(0)
        /\ (returncode = Some(0) /\ NEED_KRB181_WORKAROUND = "False") =>
               /\ callWorkaround = 0
               /\ callKrbSleep = 0
               /\ ret = NoValue
               /\ ops = IF needAtCall = "None" THEN << "Popen", "wait", "detect_conf_var" >>
                                              ELSE << "Popen", "wait" >>

C18_Witness ==
    /\ CallOver
    /\ ~exit_on_fail
    /\ needAtCall = "False"
    /\ result = Some(0)
    /\ ops = << "Popen", "wait" >>

\* C19: in STANDARD mode a failed cycle is never followed by another one: the
\* interval sleep and the next primary kinit are reached only after a cycle
\* in which the primary kinit, and the workaround when the global is True,
\* exited 0; after a non-zero exit the process has terminated, and a
\* terminated process takes no further step.
C19_NoCycleAfterFailure ==
    /\ [](CycleOfRun(STANDARD) /\ pc \in {"interval_sleep", "idle"} =>
              /\ returncode = Some(0)
              /\ result = Some(0)
              /\ NEED_KRB181_WORKAROUND = "True" => ret = Some(0)
              /\ NEED_KRB181_WORKAROUND # "True" => ret = NoValue)
    /\ [](CycleOfRun(STANDARD) /\ CycleFailed => (pc = "exited" /\ children = 0))
    /\ [][pc # "exited"]_vars

C19_Witness ==
    /\ CycleOfRun(STANDARD)
    /\ pc = "exited"
    /\ runSleeps >= 1
    /\ returncode = Some(MaxStatus)
====
